---------------------------- MODULE Spec2Model ----------------------------
(***************************************************************************)
(* Model of the LLM Council pipeline (council.js): label assignment,       *)
(* parallel ranking collection, free-text ranking parsing, ranking         *)
(* validation, weighted aggregation, disagreement analysis, and the        *)
(* runCouncil orchestration (stages 2 and 3).                              *)
(*                                                                         *)
(* A text is a sequence of tokens, one token per line of the reply:        *)
(*   marker   the literal 'FINAL RANKING:'                                 *)
(*   num      '<digits>. <pre> <letter>' optionally followed by a          *)
(*            confidence word, parenthesised or not                        *)
(*   mention  '<pre> <letter>' with no leading number                      *)
(*   kw       a line holding one word of the criteria vocabulary           *)
(*   error    the line 'Error: <message>'                                  *)
(*   other    filler without digits, 'Response', or confidence words       *)
(* where <pre> is the word 'Response' in some letter case and <letter> is  *)
(* a character code.  A label is the matched string '<pre> <letter>',      *)
(* kept as the record [pre, ch].                                           *)
(***************************************************************************)
EXTENDS Integers, Sequences, FiniteSets, TLC

VARIABLES
    \* one completion reply handled by the map callback of collectRankings
    text,            \* the content of the completion
    expectedCount,   \* labels.length of the collection the reply belongs to
    ranked,          \* the Raw Ranking built from it
    rpc,             \* "input" before the reply is processed, "done" after
    \* one call of runCouncil / collectRankings
    responses,       \* the candidate responses, [modelId, modelName]
    chairmanModelId, \* the chairmanModelId argument, "" when null
    labels,          \* const labels (character codes)
    labelToModel,    \* const labelToModel
    lpc,             \* label assignment alone: "input" before, "done" after
    pc,              \* the stage runCouncil is in
    stages,          \* the stages passed so far, in order
    issued,          \* the sendChatCompletion calls made so far, in order
    outcome,         \* what the Completion Service did with ranking request i
    rankingPromises, \* the promise of each map callback
    rankings,        \* const rankings of runCouncil, once collected
    warned,          \* console.warn of too many invalid rankings was called
    synthOutcome,    \* what the Completion Service did with the synthesis request
    options,         \* the options argument
    aggregateRankings,    \* const aggregateRankings of runCouncil
    disagreementAnalysis, \* const disagreementAnalysis of runCouncil
    analytics,       \* the Performance Store: localStorage['model_analytics']
    result,          \* the Council Result returned
    raised,          \* the message of the error the call raised, "" when none
    \* one call of calculateAggregateRankings and analyzeDisagreements
    apc,             \* "input" before the call, "called" after, "again" after a second
    modelWeights,    \* let modelWeight of each ranking the loop did not skip
    \* one call of sendChatCompletion
    useProxy,          \* config.useProxy
    apiKey,            \* the apiKey argument, "" when missing
    messages,          \* the messages argument
    completionOptions, \* the options argument
    processedMessages, \* let processedMessages
    retryCount,        \* let retryCount
    fetched,           \* the fetch calls made so far, in order
    received,          \* what each fetch call settled with, in order
    completion,        \* what the call returned or raised
    hpc                \* "start", "loop" and "final" awaiting a fetch, "returned", "raised"

replyVars == <<text, expectedCount, ranked, rpc>>
labelVars == <<responses, labels, labelToModel, lpc>>
runVars == <<chairmanModelId, pc, stages, issued, outcome, rankingPromises,
             rankings, warned, synthOutcome, options, analytics, aggregateRankings,
             disagreementAnalysis, result, raised>>
aggVars == <<apc, modelWeights>>
httpVars == <<useProxy, apiKey, messages, completionOptions, processedMessages,
              retryCount, fetched, received, completion, hpc>>
vars == <<replyVars, labelVars, runVars, aggVars, httpVars>>

-----------------------------------------------------------------------------
(* Bounds of the model *)

MaxTextLen == 3
MaxExpected == 3
MaxLabelResponses == 27
MaxResponses == 3

(* Character codes *)
CharCodeA == 65
UpperLetters == 65..90
LowerLetters == 97..122

-----------------------------------------------------------------------------
(* Tokens *)

Tok(k, pre, ch, c, p) == [k |-> k, pre |-> pre, ch |-> ch, c |-> c, p |-> p]
Marker == Tok("marker", "", 0, "", FALSE)
Other == Tok("other", "", 0, "", FALSE)
Num(pre, ch, c, p) == Tok("num", pre, ch, c, p)
Mention(pre, ch) == Tok("mention", pre, ch, "", FALSE)
Kw(w) == Tok("kw", "", 0, w, FALSE)
ErrorLine(prefix, msg) == Tok("error", prefix, 0, msg, FALSE)

Label(pre, ch) == [pre |-> pre, ch |-> ch]

\* String.prototype.toUpperCase on the confidence words the model writes
toUpperCase(s) ==
    CASE s = "high" -> "HIGH"
      [] s = "medium" -> "MEDIUM"
      [] s = "low" -> "LOW"
      [] OTHER -> s

\* String.prototype.toLowerCase on the words of kw tokens
toLowerCase(s) ==
    CASE s = "Accuracy" -> "accuracy"
      [] s = "CLARITY" -> "clarity"
      [] OTHER -> s

ConfidenceWords == {"HIGH", "MEDIUM", "LOW"}

-----------------------------------------------------------------------------
(* Regular expressions of parseRankingWithConfidence, on tokens *)

\* /Response [A-Z]/ (case-sensitive): the canonical spelling only
IsCanonical(tok) == tok.pre = "Response" /\ tok.ch \in UpperLetters

\* /Response [A-Z]/i : any letter case
IsAnyCase(tok) ==
    /\ tok.pre \in {"Response", "response", "RESPONSE"}
    /\ tok.ch \in UpperLetters \cup LowerLetters

\* /\d+\.\s*Response [A-Z]\s*\(?(HIGH|MEDIUM|LOW)\)?/gi
MatchesNumberedConfidence(tok) ==
    /\ tok.k = "num"
    /\ IsAnyCase(tok)
    /\ toUpperCase(tok.c) \in ConfidenceWords

\* /\d+\.\s*Response [A-Z]/g
MatchesNumberedSimple(tok) == tok.k = "num" /\ IsCanonical(tok)

\* /Response [A-Z]/g
MatchesResponse(tok) == tok.k \in {"num", "mention"} /\ IsCanonical(tok)

\* m.match(/\((HIGH|MEDIUM|LOW)\)/i): the confidence word between parentheses
HasParenConfidence(tok) == tok.p /\ toUpperCase(tok.c) \in ConfidenceWords

\* text.includes('FINAL RANKING:')
includes(t) == \E i \in 1..Len(t) : t[i].k = "marker"

FirstMarker(t) == CHOOSE i \in 1..Len(t) :
    t[i].k = "marker" /\ \A j \in 1..(i - 1) : t[j].k # "marker"

\* text.split('FINAL RANKING:')
RECURSIVE split(_)
split(t) ==
    IF ~includes(t) THEN <<t>>
    ELSE <<SubSeq(t, 1, FirstMarker(t) - 1)>>
             \o split(SubSeq(t, FirstMarker(t) + 1, Len(t)))

\* labels of a sequence of matched tokens, in order
RECURSIVE LabelsOf(_)
LabelsOf(ms) ==
    IF ms = <<>> THEN <<>>
    ELSE <<Label(ms[1].pre, ms[1].ch)>> \o LabelsOf(Tail(ms))

LastIndexOf(ms, label) == CHOOSE i \in 1..Len(ms) :
    /\ Label(ms[i].pre, ms[i].ch) = label
    /\ \A j \in (i + 1)..Len(ms) : Label(ms[j].pre, ms[j].ch) # label

\* confidenceScores[label] = ... inside forEach: the last assignment stays
ScoresOf(ms, explicit) ==
    [l \in {Label(ms[i].pre, ms[i].ch) : i \in 1..Len(ms)} |->
        IF explicit /\ HasParenConfidence(ms[LastIndexOf(ms, l)])
        THEN toUpperCase(ms[LastIndexOf(ms, l)].c)
        ELSE "MEDIUM"]

Parsed(ms, explicit) ==
    [ranking |-> LabelsOf(ms), confidenceScores |-> ScoresOf(ms, explicit)]

\* matched tokens with every repeated label dropped
RECURSIVE Deduplicated(_)
Deduplicated(ms) ==
    IF ms = <<>> THEN <<>>
    ELSE LET before == Deduplicated(SubSeq(ms, 1, Len(ms) - 1))
             last == ms[Len(ms)]
         IN  IF \E i \in 1..Len(before) :
                    Label(before[i].pre, before[i].ch) = Label(last.pre, last.ch)
             THEN before ELSE Append(before, last)

\* parseRankingWithConfidence deduplicating its matches
parseRankingWithConfidence_Deduplicating(t) ==
    LET rankingSection == split(t)[2]
        numberedMatches == SelectSeq(rankingSection, MatchesNumberedConfidence)
        numberedMatchesSimple == SelectSeq(rankingSection, MatchesNumberedSimple)
        sectionMatches == SelectSeq(rankingSection, MatchesResponse)
        matches == SelectSeq(t, MatchesResponse)
    IN  IF includes(t) /\ Len(split(t)) >= 2 /\ numberedMatches # <<>>
        THEN Parsed(Deduplicated(numberedMatches), TRUE)
        ELSE IF includes(t) /\ Len(split(t)) >= 2 /\ numberedMatchesSimple # <<>>
        THEN Parsed(Deduplicated(numberedMatchesSimple), FALSE)
        ELSE IF includes(t) /\ Len(split(t)) >= 2 /\ sectionMatches # <<>>
        THEN Parsed(Deduplicated(sectionMatches), FALSE)
        ELSE Parsed(Deduplicated(matches), FALSE)

parseRankingWithConfidence(t) ==
    LET rankingSection == split(t)[2]
        numberedMatches == SelectSeq(rankingSection, MatchesNumberedConfidence)
        numberedMatchesSimple == SelectSeq(rankingSection, MatchesNumberedSimple)
        sectionMatches == SelectSeq(rankingSection, MatchesResponse)
        matches == SelectSeq(t, MatchesResponse)
    IN  IF includes(t) /\ Len(split(t)) >= 2 /\ numberedMatches # <<>>
        THEN Parsed(numberedMatches, TRUE)
        ELSE IF includes(t) /\ Len(split(t)) >= 2 /\ numberedMatchesSimple # <<>>
        THEN Parsed(numberedMatchesSimple, FALSE)
        ELSE IF includes(t) /\ Len(split(t)) >= 2 /\ sectionMatches # <<>>
        THEN Parsed(sectionMatches, FALSE)
        ELSE Parsed(matches, FALSE)

parseRanking(t) == parseRankingWithConfidence(t).ranking

-----------------------------------------------------------------------------
(* extractRankingCriteria *)

criteriaKeywords ==
    <<"accuracy", "completeness", "clarity", "relevance", "depth",
      "detail", "precision", "coherence", "creativity", "practicality",
      "technical", "understandable", "concise", "thorough">>

extractRankingCriteria(t) ==
    LET InText(w) == \E i \in 1..Len(t) : t[i].k = "kw" /\ toLowerCase(t[i].c) = w
        mentioned == SelectSeq(criteriaKeywords, InText)
    IN  [isNull |-> mentioned = <<>>, mentioned |-> mentioned]

-----------------------------------------------------------------------------
(* validateRanking *)

\* validateRanking without its duplicate check
validateRanking_NoDuplicateCheck(ranking, expected) ==
    IF Len(ranking) = 0 THEN FALSE
    ELSE IF Len(ranking) < expected THEN FALSE
    ELSE TRUE

validateRanking(ranking, expected) ==
    IF Len(ranking) = 0 THEN FALSE
    ELSE IF Len(ranking) < expected THEN FALSE
    ELSE IF Cardinality({ranking[i] : i \in 1..Len(ranking)}) # Len(ranking) THEN FALSE
    ELSE TRUE

-----------------------------------------------------------------------------
(* Raw Ranking records built by the map callback of collectRankings *)

NoError == [set |-> FALSE, message |-> ""]
SomeError(msg) == [set |-> TRUE, message |-> msg]

\* lines 79-90: the request succeeded with `content`
RankingOnSuccess(r, content, labelCount) ==
    LET parsed == parseRankingWithConfidence(content)
    IN  [modelId |-> r.modelId,
         modelName |-> r.modelName,
         fullRanking |-> content,
         parsedRanking |-> parsed.ranking,
         confidenceScores |-> parsed.confidenceScores,
         rankingCriteria |-> extractRankingCriteria(content),
         isValid |-> validateRanking(parsed.ranking, labelCount),
         error |-> NoError]

\* the catch branch forgetting the error field
RankingOnFailure_NoErrorField(r, msg) ==
    [modelId |-> r.modelId,
     modelName |-> r.modelName,
     fullRanking |-> <<ErrorLine("Error: ", msg)>>,
     parsedRanking |-> <<>>,
     confidenceScores |-> <<>>,
     rankingCriteria |-> [isNull |-> TRUE, mentioned |-> <<>>],
     isValid |-> FALSE,
     error |-> NoError]

\* lines 91-103: the request failed with error.message = msg
RankingOnFailure(r, msg) ==
    [modelId |-> r.modelId,
     modelName |-> r.modelName,
     fullRanking |-> <<ErrorLine("Error: ", msg)>>,
     parsedRanking |-> <<>>,
     confidenceScores |-> <<>>,
     rankingCriteria |-> [isNull |-> TRUE, mentioned |-> <<>>],
     isValid |-> FALSE,
     error |-> SomeError(msg)]

ModelIdOf(i) == "model-" \o ToString(i)
ModelNameOf(i) == "Model " \o ToString(i)
Response(i) == [modelId |-> ModelIdOf(i), modelName |-> ModelNameOf(i)]

-----------------------------------------------------------------------------
(* Labels of collectRankings *)

\* String.fromCharCode: one UTF-16 code unit
fromCharCode(n) == n % 65536

\* responses.map((_, i) => String.fromCharCode(65 + i)), i from 0
MakeLabels(rs) == [i \in 1..Len(rs) |-> fromCharCode(CharCodeA + (i - 1))]

\* labels.forEach((label, i) => labelToModel[`Response ${label}`] = ...)
LastWithLabel(ls, l) == CHOOSE i \in 1..Len(ls) :
    ls[i] = l.ch /\ \A j \in (i + 1)..Len(ls) : ls[j] # l.ch

MakeLabelToModel(ls, rs) ==
    [l \in {Label("Response", ls[i]) : i \in 1..Len(ls)} |->
        [modelId |-> rs[LastWithLabel(ls, l)].modelId,
         modelName |-> rs[LastWithLabel(ls, l)].modelName]]

-----------------------------------------------------------------------------
(* Completion Service: sendChatCompletion settles with data or with an error *)

EmptyRanking == RankingOnFailure([modelId |-> "", modelName |-> ""], "")

NoData == [shape |-> "noChoices", content |-> <<>>]
Content(t) == [shape |-> "content", content |-> t]
NotIssued == [state |-> "none", data |-> NoData, message |-> ""]
InFlight == [state |-> "pending", data |-> NoData, message |-> ""]
Ok(data) == [state |-> "ok", data |-> data, message |-> ""]
Failed(msg) == [state |-> "failed", data |-> NoData, message |-> msg]

\* response.choices[0]?.message?.content || '' inside try/catch
extractMessageContent(data) ==
    IF data.shape = "content" THEN data.content ELSE <<>>

(* Promises of the async functions *)
Pending == [status |-> "pending", value |-> EmptyRanking, reason |-> ""]
Fulfilled(v) == [status |-> "fulfilled", value |-> v, reason |-> ""]
Rejected(msg) == [status |-> "rejected", value |-> EmptyRanking, reason |-> msg]

\* the map callback without try/catch
RankingCallback_NoCatch(r, o, labelCount) ==
    IF o.state = "ok"
    THEN Fulfilled(RankingOnSuccess(r, extractMessageContent(o.data), labelCount))
    ELSE Rejected(o.message)

\* the async map callback: try { ... } catch (error) { ... }
RankingCallback(r, o, labelCount) ==
    IF o.state = "ok"
    THEN Fulfilled(RankingOnSuccess(r, extractMessageContent(o.data), labelCount))
    ELSE Fulfilled(RankingOnFailure(r, o.message))

\* Promise.any in place of Promise.all
PromiseAllSettled_Any(ps) == \E i \in DOMAIN ps : ps[i].status = "fulfilled"

\* await Promise.all(rankingPromises) resumes
PromiseAllSettled(ps) ==
    \/ \A i \in DOMAIN ps : ps[i].status = "fulfilled"
    \/ \E i \in DOMAIN ps : ps[i].status = "rejected"

PromiseAllRejected(ps) == \E i \in DOMAIN ps : ps[i].status = "rejected"

PromiseAllValue(ps) == [i \in DOMAIN ps |-> ps[i].value]

PromiseAllReason(ps) ==
    ps[CHOOSE i \in DOMAIN ps : ps[i].status = "rejected"].reason

(* Prompts: what a request carries *)
rankingMessages(rs, ls) ==
    [kind |-> "rankingPrompt", responses |-> rs, labels |-> ls, stage2 |-> <<>>]

chairmanMessages(rs, rks) ==
    [kind |-> "chairmanPrompt", responses |-> rs, labels |-> <<>>,
     stage2 |-> [i \in DOMAIN rks |->
         [modelName |-> rks[i].modelName, fullRanking |-> rks[i].fullRanking]]]

Request(modelId, msgs) == [modelId |-> modelId, messages |-> msgs]

\* every request addressed to the model of the first response
IssueRankingRequests_FirstModel(rs, ls) ==
    [i \in 1..Len(rs) |-> Request(rs[1].modelId, rankingMessages(rs, ls))]

\* responses.map(async (r) => { ... sendChatCompletion(r.modelId, messages, apiKey)
IssueRankingRequests(rs, ls) ==
    [i \in 1..Len(rs) |-> Request(rs[i].modelId, rankingMessages(rs, ls))]

-----------------------------------------------------------------------------
(* synthesizeFinal *)

Synthesis(id, name, content) ==
    [modelId |-> id, modelName |-> name, content |-> content]

NoSynthesis == Synthesis("", "", <<>>)

SynthFulfilled(v) == [status |-> "fulfilled", value |-> v, reason |-> ""]
SynthRejected(msg) == [status |-> "rejected", value |-> NoSynthesis, reason |-> msg]

\* responses.find(r => r.modelId === chairmanModelId)?.modelName || 'Chairman'
ChairmanName(rs, id) ==
    IF \E i \in 1..Len(rs) : rs[i].modelId = id
    THEN LET first == CHOOSE i \in 1..Len(rs) :
                 rs[i].modelId = id /\ \A j \in 1..(i - 1) : rs[j].modelId # id
         IN  IF rs[first].modelName # "" THEN rs[first].modelName ELSE "Chairman"
    ELSE "Chairman"

\* synthesizeFinal without try/catch
synthesizeFinal_NoCatch(rs, id, o) ==
    IF o.state = "ok"
    THEN SynthFulfilled(Synthesis(id, ChairmanName(rs, id), extractMessageContent(o.data)))
    ELSE SynthRejected(o.message)

\* the try/catch around the chairman's request
synthesizeFinal(rs, id, o) ==
    IF o.state = "ok"
    THEN SynthFulfilled(Synthesis(id, ChairmanName(rs, id), extractMessageContent(o.data)))
    ELSE SynthFulfilled(Synthesis(id, "Chairman",
             <<ErrorLine("Error synthesizing response: ", o.message)>>))

-----------------------------------------------------------------------------
(* Numbers: JavaScript numbers are modelled by exact fractions [n, d], d > 0,  *)
(* in lowest terms.  Rounding error of the floating-point operations is not   *)
(* modelled.                                                                  *)

RECURSIVE Gcd(_, _)
Gcd(a, b) == IF b = 0 THEN a ELSE Gcd(b, a % b)

Abs(a) == IF a < 0 THEN -a ELSE a

Frac(n, d) ==
    LET g == Gcd(Abs(n), Abs(d))
    IN  IF d < 0 THEN [n |-> (-n) \div g, d |-> (-d) \div g]
        ELSE [n |-> n \div g, d |-> d \div g]

Whole(k) == [n |-> k, d |-> 1]
Plus(x, y) == Frac(x.n * y.d + y.n * x.d, x.d * y.d)
Minus(x, y) == Frac(x.n * y.d - y.n * x.d, x.d * y.d)
Times(x, y) == Frac(x.n * y.n, x.d * y.d)
Over(x, y) == Frac(x.n * y.d, x.d * y.n)
Less(x, y) == x.n * y.d < y.n * x.d
IsZero(x) == x.n = 0

\* Math.round(x * 100) / 100, Math.round being floor(x + 0.5)
Round2(x) == Frac((200 * x.n + x.d) \div (2 * x.d), 100)

RECURSIVE SumOf(_)
SumOf(xs) == IF xs = <<>> THEN Whole(0) ELSE Plus(xs[1], SumOf(Tail(xs)))

-----------------------------------------------------------------------------
(* Performance Store (model-analytics.js, kept in localStorage) *)

\* initAnalytics: an absent store is created empty by the first read
initAnalytics(store) ==
    IF store.present THEN store ELSE [present |-> TRUE, modelStats |-> <<>>]

getAnalytics(store) == initAnalytics(store)

\* getAllModelStats, the fields calculateAggregateRankings reads, keyed by modelId
getAllModelStats(store) ==
    LET stats == getAnalytics(store).modelStats
    IN  [m \in DOMAIN stats |->
            [modelId |-> m,
             hasAvgQualityScore |-> stats[m].qualityScoreCount > 0,
             avgQualityScore |->
                 IF stats[m].qualityScoreCount > 0
                 THEN Frac(stats[m].totalQualityScore, stats[m].qualityScoreCount)
                 ELSE Whole(0),
             errorRate |->
                 IF stats[m].totalInteractions > 0
                 THEN Frac(stats[m].errorCount, stats[m].totalInteractions)
                 ELSE Whole(0)]]

-----------------------------------------------------------------------------
(* calculateAggregateRankings *)

\* const confidenceWeights, and confidenceWeights[c] || 0.7
confidenceWeights(c) ==
    CASE c = "HIGH" -> Frac(10, 10)
      [] c = "MEDIUM" -> Frac(7, 10)
      [] c = "LOW" -> Frac(4, 10)
      [] OTHER -> Frac(7, 10)

\* lines 359-371
modelWeight(ranking, useWeightedAggregation, allModelStats) ==
    IF useWeightedAggregation /\ ranking.modelId \in DOMAIN allModelStats
    THEN LET stats == allModelStats[ranking.modelId]
             qualityWeight ==
                 IF stats.hasAvgQualityScore /\ ~IsZero(stats.avgQualityScore)
                 THEN Over(stats.avgQualityScore, Whole(100))
                 ELSE Frac(1, 2)
             errorPenalty == stats.errorRate
         IN  Plus(Frac(1, 2), Times(qualityWeight, Minus(Whole(1), errorPenalty)))
    ELSE Whole(1)

\* lines 380-385
effectiveWeight(ranking, label, mw, useConfidenceWeighting) ==
    IF useConfidenceWeighting /\ label \in DOMAIN ranking.confidenceScores
    THEN Times(mw, confidenceWeights(ranking.confidenceScores[label]))
    ELSE mw

\* every invalid ranking passed over
Skipped_EveryInvalid(ranking) == ~ranking.isValid

\* if (!ranking.isValid && ranking.parsedRanking.length === 0) continue
Skipped(ranking) == ~ranking.isValid /\ Len(ranking.parsedRanking) = 0

\* let modelWeight of every ranking the loop does not skip, in order
RECURSIVE ModelWeightsOf(_, _, _)
ModelWeightsOf(rks, useWeightedAggregation, allModelStats) ==
    IF rks = <<>> THEN <<>>
    ELSE (IF Skipped(rks[1]) THEN <<>>
          ELSE <<[modelId |-> rks[1].modelId,
                  weight |-> modelWeight(rks[1], useWeightedAggregation,
                                         allModelStats)]>>)
             \o ModelWeightsOf(Tail(rks), useWeightedAggregation, allModelStats)

\* the pushes of one ranking with positions counted from 0
PositionsOf_ZeroBased(ranking, opts, allModelStats) ==
    IF Skipped(ranking) THEN <<>>
    ELSE [position \in 1..Len(ranking.parsedRanking) |->
            [label |-> ranking.parsedRanking[position],
             position |-> position - 1,
             weight |-> effectiveWeight(ranking, ranking.parsedRanking[position],
                 modelWeight(ranking, opts.useWeightedAggregation, allModelStats),
                 opts.useConfidenceWeighting),
             confidence |->
                 IF ranking.parsedRanking[position] \in DOMAIN ranking.confidenceScores
                 THEN ranking.confidenceScores[ranking.parsedRanking[position]]
                 ELSE "MEDIUM"]]

\* what one ranking pushes to positionsByLabel and confidenceByLabel, in order
PositionsOf(ranking, opts, allModelStats) ==
    IF Skipped(ranking) THEN <<>>
    ELSE [position \in 1..Len(ranking.parsedRanking) |->
            [label |-> ranking.parsedRanking[position],
             position |-> position,
             weight |-> effectiveWeight(ranking, ranking.parsedRanking[position],
                 modelWeight(ranking, opts.useWeightedAggregation, allModelStats),
                 opts.useConfidenceWeighting),
             confidence |->
                 IF ranking.parsedRanking[position] \in DOMAIN ranking.confidenceScores
                 THEN ranking.confidenceScores[ranking.parsedRanking[position]]
                 ELSE "MEDIUM"]]

RECURSIVE AllPositions(_, _, _)
AllPositions(rks, opts, allModelStats) ==
    IF rks = <<>> THEN <<>>
    ELSE PositionsOf(rks[1], opts, allModelStats)
             \o AllPositions(Tail(rks), opts, allModelStats)

\* the keys of positionsByLabel in insertion order
RECURSIVE KeysInOrder(_)
KeysInOrder(ps) ==
    IF ps = <<>> THEN <<>>
    ELSE LET before == KeysInOrder(SubSeq(ps, 1, Len(ps) - 1))
             key == ps[Len(ps)].label
         IN  IF \E i \in 1..Len(before) : before[i] = key
             THEN before ELSE Append(before, key)

CountOf(xs, c) == Len(SelectSeq(xs, LAMBDA x : x.confidence = c))

\* lines 398-425: the entry pushed for one label
AggregateEntry(label, weightedPositions, l2m) ==
    LET totalWeight == SumOf([i \in 1..Len(weightedPositions) |->
                           weightedPositions[i].weight])
        weightedSum == SumOf([i \in 1..Len(weightedPositions) |->
                           Times(Whole(weightedPositions[i].position),
                                 weightedPositions[i].weight)])
        avgRank == IF Less(Whole(0), totalWeight)
                   THEN Over(weightedSum, totalWeight) ELSE Whole(0)
        high == CountOf(weightedPositions, "HIGH")
        medium == CountOf(weightedPositions, "MEDIUM")
        low == CountOf(weightedPositions, "LOW")
        avgConfidence == Frac(10 * high + 7 * medium + 4 * low,
                              10 * Len(weightedPositions))
    IN  [label |-> label,
         modelId |-> l2m[label].modelId,
         modelName |-> l2m[label].modelName,
         avgRank |-> Round2(avgRank),
         rankingsCount |-> Len(weightedPositions),
         avgConfidence |-> Round2(avgConfidence),
         confidenceDistribution |-> [HIGH |-> high, MEDIUM |-> medium, LOW |-> low],
         totalWeight |-> Round2(totalWeight)]

\* insertion that puts an entry before the entries of equal rank
RECURSIVE InsertSorted_BeforeEqual(_, _)
InsertSorted_BeforeEqual(sorted, e) ==
    IF sorted = <<>> THEN <<e>>
    ELSE IF ~Less(sorted[Len(sorted)].avgRank, e.avgRank)
    THEN Append(InsertSorted_BeforeEqual(SubSeq(sorted, 1, Len(sorted) - 1), e),
                sorted[Len(sorted)])
    ELSE Append(sorted, e)

\* insertion for a sort in descending order
RECURSIVE InsertSorted_Descending(_, _)
InsertSorted_Descending(sorted, e) ==
    IF sorted = <<>> THEN <<e>>
    ELSE IF Less(sorted[Len(sorted)].avgRank, e.avgRank)
    THEN Append(InsertSorted_Descending(SubSeq(sorted, 1, Len(sorted) - 1), e),
                sorted[Len(sorted)])
    ELSE Append(sorted, e)

\* aggregate.sort((a, b) => a.avgRank - b.avgRank): a stable sort
RECURSIVE InsertSorted(_, _)
InsertSorted(sorted, e) ==
    IF sorted = <<>> THEN <<e>>
    ELSE IF Less(e.avgRank, sorted[Len(sorted)].avgRank)
    THEN Append(InsertSorted(SubSeq(sorted, 1, Len(sorted) - 1), e), sorted[Len(sorted)])
    ELSE Append(sorted, e)

RECURSIVE SortByAvgRank(_)
SortByAvgRank(es) ==
    IF es = <<>> THEN <<>>
    ELSE InsertSorted(SortByAvgRank(SubSeq(es, 1, Len(es) - 1)), es[Len(es)])

calculateAggregateRankings(rks, l2m, opts, store) ==
    LET allModelStats == IF opts.useWeightedAggregation
                         THEN getAllModelStats(store) ELSE <<>>
        positions == AllPositions(rks, opts, allModelStats)
        keys == SelectSeq(KeysInOrder(positions), LAMBDA k : k \in DOMAIN l2m)
        aggregate == [i \in 1..Len(keys) |->
            AggregateEntry(keys[i],
                SelectSeq(positions, LAMBDA wp : wp.label = keys[i]), l2m)]
    IN  SortByAvgRank(aggregate)

-----------------------------------------------------------------------------
(* analyzeDisagreements *)

\* Object.keys(labelToModel): collectRankings inserts the keys in increasing
\* character code
RECURSIVE objectKeys(_)
objectKeys(l2m) ==
    IF DOMAIN l2m = {} THEN <<>>
    ELSE LET least == CHOOSE l \in DOMAIN l2m : \A k \in DOMAIN l2m : l.ch <= k.ch
         IN  <<least>> \o objectKeys([k \in DOMAIN l2m \ {least} |-> l2m[k]])

\* the positions one ranking pushes to positionMatrix[label]
RECURSIVE IndicesOf(_, _, _)
IndicesOf(order, label, from) ==
    IF from > Len(order) THEN <<>>
    ELSE (IF order[from] = label THEN <<from>> ELSE <<>>)
             \o IndicesOf(order, label, from + 1)

RECURSIVE PositionsInMatrix(_, _)
PositionsInMatrix(rks, label) ==
    IF rks = <<>> THEN <<>>
    ELSE IndicesOf(rks[1].parsedRanking, label, 1)
             \o PositionsInMatrix(Tail(rks), label)

Mean(positions) ==
    Over(SumOf([i \in 1..Len(positions) |-> Whole(positions[i])]),
         Whole(Len(positions)))

\* the mean of the squared positions, not centred on the mean
Variance_Uncentred(positions) ==
    Over(SumOf([i \in 1..Len(positions) |->
             Times(Whole(positions[i]), Whole(positions[i]))]),
         Whole(Len(positions)))

\* sum of Math.pow(pos - mean, 2), over positions.length
Variance(positions) ==
    LET mean == Mean(positions)
    IN  Over(SumOf([i \in 1..Len(positions) |->
                 Times(Minus(Whole(positions[i]), mean),
                       Minus(Whole(positions[i]), mean))]),
             Whole(Len(positions)))

MinOf(positions) == CHOOSE x \in {positions[i] : i \in 1..Len(positions)} :
    \A i \in 1..Len(positions) : x <= positions[i]
MaxOf(positions) == CHOOSE x \in {positions[i] : i \in 1..Len(positions)} :
    \A i \in 1..Len(positions) : x >= positions[i]

\* insertion that puts an entry before the entries of equal variance
RECURSIVE InsertByVariance_BeforeEqual(_, _)
InsertByVariance_BeforeEqual(sorted, e) ==
    IF sorted = <<>> THEN <<e>>
    ELSE IF ~Less(e.variance, sorted[Len(sorted)].variance)
    THEN Append(InsertByVariance_BeforeEqual(SubSeq(sorted, 1, Len(sorted) - 1), e),
                sorted[Len(sorted)])
    ELSE Append(sorted, e)

\* entries.sort((a, b) => b.variance - a.variance): a stable sort
RECURSIVE InsertByVariance(_, _)
InsertByVariance(sorted, e) ==
    IF sorted = <<>> THEN <<e>>
    ELSE IF Less(sorted[Len(sorted)].variance, e.variance)
    THEN Append(InsertByVariance(SubSeq(sorted, 1, Len(sorted) - 1), e),
                sorted[Len(sorted)])
    ELSE Append(sorted, e)

RECURSIVE SortByVarianceDesc(_)
SortByVarianceDesc(es) ==
    IF es = <<>> THEN <<>>
    ELSE InsertByVariance(SortByVarianceDesc(SubSeq(es, 1, Len(es) - 1)), es[Len(es)])

NoContested == [isNull |-> TRUE, label |-> Label("", 0), modelName |-> "",
                variance |-> Whole(0)]

NaN == [n |-> 0, d |-> 0]

\* Math.max(0, x)
MaxZero(x) == IF Less(x, Whole(0)) THEN Whole(0) ELSE x

\* the short circuit taken with no valid ranking only
TooFewValid_None(valid) == Len(valid) < 1

\* if (validRankings.length < 2) return { consensus: 1.0, ... }
TooFewValid(valid) == Len(valid) < 2

\* stdDev is Math.sqrt(variance); the model keeps the variance, and
\* stdDev > 1.0 is variance > 1
analyzeDisagreements(rks, l2m) ==
    LET valid == SelectSeq(rks, LAMBDA r : r.isValid /\ Len(r.parsedRanking) > 0)
        keys == objectKeys(l2m)
        positionMatrix == [l \in DOMAIN l2m |-> PositionsInMatrix(valid, l)]
        withPositions == SelectSeq(keys, LAMBDA l : positionMatrix[l] # <<>>)
        variances == [i \in 1..Len(withPositions) |->
            [label |-> withPositions[i],
             modelName |-> l2m[withPositions[i]].modelName,
             mean |-> Mean(positionMatrix[withPositions[i]]),
             variance |-> Variance(positionMatrix[withPositions[i]]),
             positions |-> positionMatrix[withPositions[i]],
             rankRange |-> [min |-> MinOf(positionMatrix[withPositions[i]]),
                            max |-> MaxOf(positionMatrix[withPositions[i]])]]]
        byVariance == SortByVarianceDesc(variances)
        totalVariance == SumOf([i \in 1..Len(variances) |-> variances[i].variance])
        maxPossibleVariance == Frac(Len(keys) * Len(keys), 12)
        consensus ==
            IF Len(keys) = 0 THEN NaN
            ELSE Round2(MaxZero(Minus(Whole(1),
                     Over(totalVariance, Times(maxPossibleVariance, Whole(Len(keys)))))))
    IN  IF TooFewValid(valid)
        THEN [consensus |-> Whole(1),
              disagreements |-> <<>>,
              mostContested |-> NoContested,
              positionMatrix |-> <<>>]
        ELSE [consensus |-> consensus,
              disagreements |-> SortByVarianceDesc(
                  SelectSeq(variances, LAMBDA v : Less(Whole(1), v.variance))),
              mostContested |->
                  IF byVariance = <<>> THEN NoContested
                  ELSE [isNull |-> FALSE,
                        label |-> byVariance[1].label,
                        modelName |-> byVariance[1].modelName,
                        variance |-> byVariance[1].variance],
              positionMatrix |-> positionMatrix]

-----------------------------------------------------------------------------
(* runCouncil *)

InsufficientResponses == "Council requires at least 2 responses"

\* the guard comparing with 1
HasEnoughResponses_One(rs) == ~(Len(rs) < 1)

\* if (responses.length < 2) throw
HasEnoughResponses(rs) == ~(Len(rs) < 2)

\* chairmanModelId || responses[0].modelId
chairman(id, rs) == IF id # "" THEN id ELSE rs[1].modelId

validRankings(rks) == SelectSeq(rks, LAMBDA r : r.isValid)
\* only the rankings whose request failed
invalidRankings_OnlyFailed(rks) == SelectSeq(rks, LAMBDA r : r.error.set)

invalidRankings(rks) == SelectSeq(rks, LAMBDA r : ~r.isValid)

\* invalidRankings.length > 0 && invalidRankings.length >= rankings.length / 2
TooManyInvalid(rks) ==
    /\ Len(invalidRankings(rks)) > 0
    /\ 2 * Len(invalidRankings(rks)) >= Len(rks)

rankingValidation(rks) ==
    [totalRankings |-> Len(rks),
     validRankings |-> Len(validRankings(rks)),
     invalidRankings |-> Len(invalidRankings(rks)),
     invalidDetails |-> [i \in 1..Len(invalidRankings(rks)) |->
         [modelName |-> invalidRankings(rks)[i].modelName,
          error |-> IF invalidRankings(rks)[i].error.set
                       /\ invalidRankings(rks)[i].error.message # ""
                    THEN invalidRankings(rks)[i].error.message
                    ELSE "Incomplete ranking"]]]

\* every ranking passed on, valid or not
PreferValid_All(rks) == rks

\* validRankings.length > 0 ? validRankings : rankings
PreferValid(rks) == IF Len(validRankings(rks)) > 0 THEN validRankings(rks) ELSE rks

NoResult ==
    [returned |-> FALSE, rankings |-> <<>>, labelToModel |-> <<>>,
     aggregateRankings |-> <<>>, synthesis |-> NoSynthesis,
     disagreementAnalysis |-> analyzeDisagreements(<<>>, <<>>),
     rankingValidation |-> rankingValidation(<<>>)]

\* the store after calculateAggregateRankings has read it
StoreAfterAggregation(opts, store) ==
    IF opts.useWeightedAggregation THEN initAnalytics(store) ELSE store

\* lines 577-592
CouncilResult(rks, l2m, agg, syn, dis) ==
    [returned |-> TRUE, rankings |-> rks, labelToModel |-> l2m,
     aggregateRankings |-> agg, synthesis |-> syn, disagreementAnalysis |-> dis,
     rankingValidation |-> rankingValidation(rks)]

-----------------------------------------------------------------------------
(* Inputs *)

\* the lines a reply is made of: 'Response A' and 'Response C' mentioned in
\* prose, numbered lines with a parenthesised confidence, with a bare
\* confidence, without confidence, and in lower case
TokenAlphabet ==
    {Marker, Other,
     Mention("Response", CharCodeA),
     Mention("Response", CharCodeA + 2),
     Num("Response", CharCodeA, "LOW", TRUE),
     Num("Response", CharCodeA, "HIGH", TRUE),
     Num("Response", CharCodeA + 1, "HIGH", TRUE),
     Num("Response", CharCodeA + 1, "HIGH", FALSE),
     Num("Response", CharCodeA, "", FALSE),
     Num("response", CharCodeA + 1 + 32, "low", TRUE)}

RECURSIVE TextsOfLen(_)
TextsOfLen(n) ==
    IF n = 0 THEN {<<>>}
    ELSE {Append(t, tok) : t \in TextsOfLen(n - 1), tok \in TokenAlphabet}

Texts == UNION {TextsOfLen(n) : n \in 0..MaxTextLen}

\* replies of a ranker to a prompt with n labelled responses
ReversedReply(n) ==
    <<Kw("CLARITY"), Marker>>
        \o [i \in 1..n |-> Num("Response", CharCodeA + (n - i), "HIGH", TRUE)]
InOrderReply(n) == [i \in 1..n |-> Mention("Response", CharCodeA + (i - 1))]
RepeatingReply(n) == [i \in 1..n |-> Mention("Response", CharCodeA)]

SampleReplies(n) == {ReversedReply(n), InOrderReply(n), RepeatingReply(n)}

Messages == {"Failed to fetch", "API request failed: 500"}

RankingOutcomes(n) ==
    {Ok(Content(t)) : t \in SampleReplies(n)}
    \cup {Ok(NoData), Failed("Failed to fetch")}

SynthesisOutcomes == {Ok(Content(<<Other>>)), Ok(NoData)} \cup {Failed(m) : m \in Messages}

\* options = {} gives both defaults
OptionsGiven ==
    {[useWeightedAggregation |-> TRUE, useConfidenceWeighting |-> TRUE],
     [useWeightedAggregation |-> FALSE, useConfidenceWeighting |-> FALSE]}

NoStore == [present |-> FALSE, modelStats |-> <<>>]

\* model-1 has history: 4 interactions, 1 error, 2 quality scores adding to 160
StoreWithHistory ==
    [present |-> TRUE,
     modelStats |-> [m \in {ModelIdOf(1)} |->
         [totalInteractions |-> 4, errorCount |-> 1,
          totalQualityScore |-> 160, qualityScoreCount |-> 2]]]

\* model-2 has one interaction whose quality score is 0
StoreZeroQuality ==
    [present |-> TRUE,
     modelStats |-> [m \in {ModelIdOf(2)} |->
         [totalInteractions |-> 1, errorCount |-> 0,
          totalQualityScore |-> 0, qualityScoreCount |-> 1]]]

Stores == {NoStore, StoreWithHistory, StoreZeroQuality}

\* the options runCouncil may be given; handleConsultCouncil passes none
AggregatorOptions ==
    OptionsGiven \cup {[useWeightedAggregation |-> TRUE, useConfidenceWeighting |-> FALSE]}

\* 'FINAL RANKING:' then the last label and the others in order, all (LOW)
LastFirstReply(n) ==
    <<Marker, Num("Response", CharCodeA + (n - 1), "LOW", TRUE)>>
        \o [i \in 1..(n - 1) |-> Num("Response", CharCodeA + (i - 1), "LOW", TRUE)]

\* prose naming B, then A, then the others in order
SwappedReply(n) ==
    <<Mention("Response", CharCodeA + 1), Mention("Response", CharCodeA)>>
        \o [i \in 1..(n - 2) |-> Mention("Response", CharCodeA + (i + 1))]

\* prose naming the last label, then A, then the last label twice more
InsistingReply(n) ==
    <<Mention("Response", CharCodeA + (n - 1)), Mention("Response", CharCodeA),
      Mention("Response", CharCodeA + (n - 1)), Mention("Response", CharCodeA + (n - 1))>>

\* prose naming every label in order and then a letter that labels no response
StrayReply(n) == Append(InOrderReply(n), Mention("Response", CharCodeA + n))

AggregatorOutcomes(n) ==
    {Ok(Content(t)) : t \in {InOrderReply(n), ReversedReply(n), LastFirstReply(n),
                              SwappedReply(n), InsistingReply(n), StrayReply(n)}}
    \cup {Failed("Failed to fetch")}

CandidateResponses(n) == [i \in 1..n |-> Response(i)]

-----------------------------------------------------------------------------
(* openrouter-client.js: sendChatCompletion *)

\* const maxRetries = 2
maxRetries == 2

\* a chat message: its role, its original content, how many copies of
\* CONCISE_COMPLETE_SYSTEM_MESSAGE stand before it and how many 'IMPORTANT:
\* Provide a concise but complete answer ...' notes stand after it
ChatMessage(role, content, concise, important) ==
    [role |-> role, content |-> content, concise |-> concise, important |-> important]

ensureConciseCompleteMessages(ms) ==
    IF \E i \in 1..Len(ms) : ms[i].role = "system"
    THEN [i \in 1..Len(ms) |->
             IF ms[i].role = "system"
             THEN [ms[i] EXCEPT !.concise = @ + 1] ELSE ms[i]]
    ELSE <<ChatMessage("system", "", 1, 0)>> \o ms

\* the index of the last user message, 0 when there is none (-1 in the source)
lastUserIndex(ms) ==
    IF \E i \in 1..Len(ms) : ms[i].role = "user"
    THEN CHOOSE i \in 1..Len(ms) :
             /\ ms[i].role = "user"
             /\ \A j \in (i + 1)..Len(ms) : ms[j].role # "user"
    ELSE 0

createRetryPrompt(originalMessages) ==
    IF lastUserIndex(originalMessages) = 0 THEN originalMessages
    ELSE [originalMessages EXCEPT ![lastUserIndex(originalMessages)] =
             ChatMessage("user", @.content, @.concise, @.important + 1)]

\* finishReason === 'length'; a body without choices gives undefined
isTruncated(data) == data.finish_reason = "length"

\* { model, messages, max_tokens: 200, ...options }
requestBody(ms, opts) ==
    [model |-> "model-x", messages |-> ms,
     max_tokens |-> IF opts.max_tokens # "" THEN opts.max_tokens ELSE "200"]

\* fetch(endpoint, { method: 'POST', headers, body })
FetchCall(proxy, key, ms, opts) ==
    [endpoint |-> IF proxy THEN "/api/chat"
                  ELSE "https://openrouter.ai/api/v1/chat/completions",
     authorization |-> IF proxy THEN "" ELSE key,
     body |-> requestBody(ms, opts)]

(* What a fetch call settles with *)
NoBody == [valid |-> FALSE, finish_reason |-> "", error |-> "", retryAfter |-> ""]
Json(finish_reason, error, retryAfter) ==
    [valid |-> TRUE, finish_reason |-> finish_reason, error |-> error,
     retryAfter |-> retryAfter]
NetworkError(msg) == [rejected |-> TRUE, message |-> msg, status |-> 0, body |-> NoBody]
HttpResponse(status, body) ==
    [rejected |-> FALSE, message |-> "", status |-> status, body |-> body]

\* response.ok
ok(o) == o.status \in 200..299

\* await response.json().catch(() => ({}))
errorData(o) == IF o.body.valid THEN o.body ELSE Json("", "", "")

\* the message of the error thrown for a response that is not ok
NotOkMessage(o) ==
    IF o.status = 429 /\ errorData(o).retryAfter # ""
    THEN "Rate limit exceeded. Please try again in "
             \o errorData(o).retryAfter \o " seconds."
    ELSE IF errorData(o).error # "" THEN errorData(o).error
    ELSE "API request failed: " \o ToString(o.status)

\* the try block throws: fetch rejected, the status is not ok, or the body of
\* an ok response is not JSON
Throws(o) == o.rejected \/ ~ok(o) \/ ~o.body.valid

ThrownMessage(o) ==
    IF o.rejected THEN o.message
    ELSE IF ~ok(o) THEN NotOkMessage(o)
    ELSE "Unexpected end of JSON input"

\* a retry after every truncated response
ShouldRetry_Always(data, count) == isTruncated(data)

\* isTruncated(data) && retryCount < maxRetries
ShouldRetry(data, count) == isTruncated(data) /\ count < maxRetries

NoCompletion == [returned |-> FALSE, raised |-> FALSE, data |-> NoBody, message |-> ""]
Returned(data) == [returned |-> TRUE, raised |-> FALSE, data |-> data, message |-> ""]
Raised(msg) == [returned |-> FALSE, raised |-> TRUE, data |-> NoBody, message |-> msg]

\* the messages arguments: one question, a conversation with a system
\* message whose last message is the assistant's, a system message alone
ChatMessagesGiven ==
    {<<ChatMessage("user", "question", 0, 0)>>,
     <<ChatMessage("system", "persona", 0, 0), ChatMessage("user", "question", 0, 0),
       ChatMessage("assistant", "answer", 0, 0)>>,
     <<ChatMessage("system", "persona", 0, 0)>>}

\* options = {} and options = { max_tokens: ... }
CompletionOptionsGiven == {[max_tokens |-> ""], [max_tokens |-> "1000"]}

FetchOutcomes ==
    {HttpResponse(200, Json("stop", "", "")),
     HttpResponse(200, Json("length", "", "")),
     HttpResponse(200, Json("", "", "")),
     HttpResponse(200, NoBody),
     HttpResponse(429, Json("", "Too many requests", "30")),
     HttpResponse(500, Json("", "Internal error", "")),
     HttpResponse(500, NoBody),
     NetworkError("Failed to fetch")}

HttpIdle ==
    /\ useProxy = FALSE
    /\ apiKey = ""
    /\ messages = <<>>
    /\ completionOptions = [max_tokens |-> ""]
    /\ processedMessages = <<>>
    /\ retryCount = 0
    /\ fetched = <<>>
    /\ received = <<>>
    /\ completion = NoCompletion
    /\ hpc = "idle"

-----------------------------------------------------------------------------
(* Spec: one call of runCouncil *)

ReplyIdle ==
    /\ text = <<>>
    /\ expectedCount = 0
    /\ ranked = EmptyRanking
    /\ rpc = "idle"

AggIdle ==
    /\ apc = "idle"
    /\ modelWeights = <<>>

RunIdle ==
    /\ chairmanModelId = ""
    /\ pc = "idle"
    /\ stages = <<>>
    /\ issued = <<>>
    /\ outcome = <<>>
    /\ rankingPromises = <<>>
    /\ rankings = <<>>
    /\ warned = FALSE
    /\ synthOutcome = NotIssued
    /\ options = [useWeightedAggregation |-> TRUE, useConfidenceWeighting |-> TRUE]
    /\ analytics = NoStore
    /\ aggregateRankings = <<>>
    /\ disagreementAnalysis = analyzeDisagreements(<<>>, <<>>)
    /\ result = NoResult

Init ==
    /\ \E n \in 0..MaxResponses : responses = CandidateResponses(n)
    /\ chairmanModelId \in {"", ModelIdOf(2), "model-x"}
    /\ labels = <<>>
    /\ labelToModel = <<>>
    /\ lpc = "idle"
    /\ pc = "INIT"
    /\ stages = <<"INIT">>
    /\ issued = <<>>
    /\ outcome = <<>>
    /\ rankingPromises = <<>>
    /\ rankings = <<>>
    /\ warned = FALSE
    /\ synthOutcome = NotIssued
    /\ options \in OptionsGiven
    /\ analytics \in {NoStore, StoreWithHistory}
    /\ aggregateRankings = <<>>
    /\ disagreementAnalysis = analyzeDisagreements(<<>>, <<>>)
    /\ result = NoResult
    /\ raised = ""
    /\ ReplyIdle
    /\ AggIdle
    /\ HttpIdle

\* runCouncil is called: everything up to the await of Promise.all runs at once
RunCouncil ==
    /\ pc = "INIT"
    /\ IF ~HasEnoughResponses(responses)
       THEN /\ raised' = InsufficientResponses
            /\ pc' = "ABORTED"
            /\ stages' = Append(stages, "ABORTED")
            /\ UNCHANGED <<labels, labelToModel, issued, outcome, rankingPromises>>
       ELSE /\ labels' = MakeLabels(responses)
            /\ labelToModel' = MakeLabelToModel(MakeLabels(responses), responses)
            /\ issued' = issued \o IssueRankingRequests(responses, MakeLabels(responses))
            /\ outcome' = [i \in DOMAIN IssueRankingRequests(responses, MakeLabels(responses))
                              |-> InFlight]
            /\ rankingPromises' = [i \in 1..Len(responses) |-> Pending]
            /\ pc' = "COLLECTING_RANKINGS"
            /\ stages' = Append(stages, "COLLECTING_RANKINGS")
            /\ UNCHANGED raised
    /\ UNCHANGED <<responses, chairmanModelId, lpc, rankings, warned, synthOutcome,
                   options, analytics, aggregateRankings, disagreementAnalysis,
                   result, replyVars, aggVars, httpVars>>

\* the request of the i-th callback settles and the callback runs to its return
SettleRanking(i) ==
    /\ pc = "COLLECTING_RANKINGS"
    /\ i \in DOMAIN outcome
    /\ outcome[i].state = "pending"
    /\ \E o \in RankingOutcomes(Len(responses)) :
          /\ outcome' = [outcome EXCEPT ![i] = o]
          /\ rankingPromises' =
                 [rankingPromises EXCEPT ![i] = RankingCallback(responses[i], o, Len(labels))]
    /\ UNCHANGED <<labelVars, chairmanModelId, pc, stages, issued, rankings, warned,
                   synthOutcome, options, analytics, aggregateRankings,
                   disagreementAnalysis, result, raised, replyVars, aggVars, httpVars>>

\* Promise.all settles: runCouncil runs from line 548 to the await of line 575
JoinRankings ==
    /\ pc = "COLLECTING_RANKINGS"
    /\ PromiseAllSettled(rankingPromises)
    /\ IF PromiseAllRejected(rankingPromises)
       THEN /\ raised' = PromiseAllReason(rankingPromises)
            /\ pc' = "ABORTED"
            /\ stages' = Append(stages, "ABORTED")
            /\ UNCHANGED <<rankings, warned, issued, synthOutcome, analytics,
                           aggregateRankings, disagreementAnalysis>>
       ELSE /\ rankings' = PromiseAllValue(rankingPromises)
            /\ warned' = TooManyInvalid(PromiseAllValue(rankingPromises))
            /\ aggregateRankings' = calculateAggregateRankings(
                   PreferValid(PromiseAllValue(rankingPromises)), labelToModel,
                   options, analytics)
            /\ analytics' = StoreAfterAggregation(options, analytics)
            /\ disagreementAnalysis' = analyzeDisagreements(
                   PreferValid(PromiseAllValue(rankingPromises)), labelToModel)
            /\ issued' = Append(issued,
                   Request(chairman(chairmanModelId, responses),
                           chairmanMessages(responses, PromiseAllValue(rankingPromises))))
            /\ synthOutcome' = InFlight
            /\ pc' = "SYNTHESIZING"
            /\ stages' = stages \o <<"AGGREGATING", "SYNTHESIZING">>
            /\ UNCHANGED raised
    /\ UNCHANGED <<labelVars, chairmanModelId, outcome, rankingPromises, options,
                   result, replyVars, aggVars, httpVars>>

\* the chairman's request settles: synthesizeFinal returns and runCouncil returns
SettleSynthesis ==
    /\ pc = "SYNTHESIZING"
    /\ synthOutcome.state = "pending"
    /\ \E o \in SynthesisOutcomes :
          /\ synthOutcome' = o
          /\ LET p == synthesizeFinal(responses, chairman(chairmanModelId, responses), o)
             IN  IF p.status = "rejected"
                 THEN /\ raised' = p.reason
                      /\ pc' = "ABORTED"
                      /\ stages' = Append(stages, "ABORTED")
                      /\ UNCHANGED result
                 ELSE /\ result' = CouncilResult(rankings, labelToModel,
                                     aggregateRankings, p.value, disagreementAnalysis)
                      /\ pc' = "DONE"
                      /\ stages' = Append(stages, "DONE")
                      /\ UNCHANGED raised
    /\ UNCHANGED <<labelVars, chairmanModelId, issued, outcome, rankingPromises,
                   rankings, warned, options, analytics, aggregateRankings,
                   disagreementAnalysis, replyVars, aggVars, httpVars>>

Next ==
    \/ RunCouncil
    \/ \E i \in 1..MaxResponses : SettleRanking(i)
    \/ JoinRankings
    \/ SettleSynthesis

Spec == Init /\ [][Next]_vars

\* the continuation of await Promise.all(rankingPromises), seen through pc alone
ResumeAfterJoin ==
    /\ pc = "COLLECTING_RANKINGS"
    /\ PromiseAllSettled(rankingPromises)
    /\ pc' \in {"SYNTHESIZING", "ABORTED"}

\* every completion request settles and the event loop runs every continuation;
\* under Spec a ResumeAfterJoin step that changes pc is a JoinRankings step
FairSpec ==
    /\ Spec
    /\ WF_vars(RunCouncil)
    /\ \A i \in 1..MaxResponses : WF_vars(SettleRanking(i))
    /\ WF_pc(ResumeAfterJoin)
    /\ WF_vars(SettleSynthesis)

-----------------------------------------------------------------------------
(* ReplySpec: one successful completion handled by the map callback *)

ReplyInit ==
    /\ text \in Texts
    /\ expectedCount \in 0..MaxExpected
    /\ ranked = EmptyRanking
    /\ rpc = "input"
    /\ responses = <<>>
    /\ labels = <<>>
    /\ labelToModel = <<>>
    /\ lpc = "idle"
    /\ raised = ""
    /\ RunIdle
    /\ AggIdle
    /\ HttpIdle

ProcessReply ==
    /\ rpc = "input"
    /\ ranked' = RankingCallback(Response(1), Ok(Content(text)), expectedCount).value
    /\ rpc' = "done"
    /\ UNCHANGED <<text, expectedCount, labelVars, runVars, aggVars, httpVars>>

ReplyNext == ProcessReply

ReplySpec == ReplyInit /\ [][ReplyNext]_vars

-----------------------------------------------------------------------------
(* AggSpec: calculateAggregateRankings and analyzeDisagreements called on the *)
(* rankings collectRankings returned, as handleConsultCouncil does, or on     *)
(* the valid ones, as runCouncil does                                         *)

AggInit ==
    /\ \E n \in 2..MaxResponses :
          /\ responses = CandidateResponses(n)
          /\ labels = MakeLabels(CandidateResponses(n))
          /\ labelToModel = MakeLabelToModel(MakeLabels(CandidateResponses(n)),
                                             CandidateResponses(n))
          /\ \E os \in [1..n -> AggregatorOutcomes(n)], preferValid \in BOOLEAN :
                LET collected == [i \in 1..n |->
                        RankingCallback(Response(i), os[i], n).value]
                IN  rankings = IF preferValid THEN PreferValid(collected)
                               ELSE collected
    /\ options \in AggregatorOptions
    /\ analytics \in Stores
    /\ aggregateRankings = <<>>
    /\ disagreementAnalysis = analyzeDisagreements(<<>>, <<>>)
    /\ apc = "input"
    /\ modelWeights = <<>>
    /\ lpc = "idle"
    /\ chairmanModelId = ""
    /\ pc = "idle"
    /\ stages = <<>>
    /\ issued = <<>>
    /\ outcome = <<>>
    /\ rankingPromises = <<>>
    /\ warned = FALSE
    /\ synthOutcome = NotIssued
    /\ result = NoResult
    /\ raised = ""
    /\ ReplyIdle
    /\ HttpIdle

\* both functions run on the current rankings, labelToModel, options and store
CallAggregator(before, after) ==
    /\ apc = before
    /\ apc' = after
    /\ aggregateRankings' =
           calculateAggregateRankings(rankings, labelToModel, options, analytics)
    /\ modelWeights' = ModelWeightsOf(rankings, options.useWeightedAggregation,
           IF options.useWeightedAggregation
           THEN getAllModelStats(analytics) ELSE <<>>)
    /\ analytics' = StoreAfterAggregation(options, analytics)
    /\ disagreementAnalysis' = analyzeDisagreements(rankings, labelToModel)
    /\ UNCHANGED <<labelVars, replyVars, chairmanModelId, pc, stages, issued,
                   outcome, rankingPromises, rankings, warned, synthOutcome,
                   options, result, raised, httpVars>>

Aggregate == CallAggregator("input", "called")

AggregateAgain == CallAggregator("called", "again")

AggNext == Aggregate \/ AggregateAgain

AggSpec == AggInit /\ [][AggNext]_vars

-----------------------------------------------------------------------------
(* LabelSpec: the label assignment of collectRankings, lines 19-30 *)

LabelInit ==
    /\ \E n \in 0..MaxLabelResponses, sameName \in BOOLEAN :
          responses = [i \in 1..n |->
              [modelId |-> ModelIdOf(i),
               modelName |-> IF sameName THEN "Model" ELSE ModelNameOf(i)]]
    /\ labels = <<>>
    /\ labelToModel = <<>>
    /\ lpc = "input"
    /\ raised = ""
    /\ RunIdle
    /\ ReplyIdle
    /\ AggIdle
    /\ HttpIdle

AssignLabels ==
    /\ lpc = "input"
    /\ labels' = MakeLabels(responses)
    /\ labelToModel' = MakeLabelToModel(MakeLabels(responses), responses)
    /\ lpc' = "done"
    /\ UNCHANGED <<responses, replyVars, runVars, aggVars, httpVars>>

LabelNext == AssignLabels

LabelSpec == LabelInit /\ [][LabelNext]_vars

-----------------------------------------------------------------------------
(* HttpSpec: one call of sendChatCompletion, lines 77-186 *)

HttpInit ==
    /\ useProxy \in BOOLEAN
    /\ apiKey \in {"", "sk-or-key"}
    /\ messages \in ChatMessagesGiven
    /\ completionOptions \in CompletionOptionsGiven
    /\ processedMessages = <<>>
    /\ retryCount = 0
    /\ fetched = <<>>
    /\ received = <<>>
    /\ completion = NoCompletion
    /\ hpc = "start"
    /\ responses = <<>>
    /\ labels = <<>>
    /\ labelToModel = <<>>
    /\ lpc = "idle"
    /\ raised = ""
    /\ RunIdle
    /\ ReplyIdle
    /\ AggIdle

\* the call runs from line 79 to the await of the first fetch
SendChatCompletion ==
    /\ hpc = "start"
    /\ IF ~useProxy /\ apiKey = ""
       THEN /\ completion' = Raised("API key is required")
            /\ hpc' = "raised"
            /\ UNCHANGED <<processedMessages, fetched>>
       ELSE /\ processedMessages' = ensureConciseCompleteMessages(messages)
            /\ fetched' = <<FetchCall(useProxy, apiKey,
                   ensureConciseCompleteMessages(messages), completionOptions)>>
            /\ hpc' = "loop"
            /\ UNCHANGED completion
    /\ UNCHANGED <<useProxy, apiKey, messages, completionOptions, retryCount,
                   received, replyVars, labelVars, runVars, aggVars>>

\* the awaited fetch settles: the call runs to its next await, its return or
\* its throw; a fetch awaited after the loop (line 174) is not retried
FetchSettles ==
    /\ hpc \in {"loop", "final"}
    /\ \E o \in FetchOutcomes :
          /\ received' = Append(received, o)
          /\ IF Throws(o)
             THEN /\ completion' = Raised(ThrownMessage(o))
                  /\ hpc' = "raised"
                  /\ UNCHANGED <<processedMessages, retryCount, fetched>>
             ELSE IF hpc = "loop" /\ ShouldRetry(o.body, retryCount)
             THEN /\ processedMessages' = createRetryPrompt(processedMessages)
                  /\ retryCount' = retryCount + 1
                  /\ fetched' = Append(fetched, FetchCall(useProxy, apiKey,
                         createRetryPrompt(processedMessages), completionOptions))
                  /\ hpc' = IF retryCount + 1 <= maxRetries THEN "loop" ELSE "final"
                  /\ UNCHANGED completion
             ELSE /\ completion' = Returned(o.body)
                  /\ hpc' = "returned"
                  /\ UNCHANGED <<processedMessages, retryCount, fetched>>
    /\ UNCHANGED <<useProxy, apiKey, messages, completionOptions,
                   replyVars, labelVars, runVars, aggVars>>

HttpNext == SendChatCompletion \/ FetchSettles

HttpSpec == HttpInit /\ [][HttpNext]_vars

\* every fetch settles and the event loop runs the continuation
HttpFairSpec ==
    /\ HttpSpec
    /\ WF_vars(SendChatCompletion)
    /\ WF_vars(FetchSettles)

-----------------------------------------------------------------------------
(* Properties *)

Settled(o) == o.state \in {"ok", "failed"}
RankingRequests == SelectSeq(issued, LAMBDA q : q.messages.kind = "rankingPrompt")
ChairmanRequests == SelectSeq(issued, LAMBDA q : q.messages.kind = "chairmanPrompt")
HasDuplicate(order) ==
    \E i, j \in 1..Len(order) : i # j /\ order[i] = order[j]

\* C1: runCouncil called with fewer than 2 responses fails at INIT with the
\* insufficient-responses error: no completion request is ever issued and no
\* Council Result is returned.
C1_InsufficientResponses ==
    (pc # "INIT" /\ Len(responses) < 2) =>
        /\ pc = "ABORTED"
        /\ stages = <<"INIT", "ABORTED">>
        /\ raised = InsufficientResponses
        /\ issued = <<>>
        /\ \A i \in DOMAIN outcome : outcome[i].state = "none"
        /\ synthOutcome.state = "none"
        /\ ~result.returned
        /\ result = NoResult

C1_Witness == pc = "ABORTED" /\ Len(responses) = 1 /\ raised = InsufficientResponses

StageOrder == <<"INIT", "COLLECTING_RANKINGS", "AGGREGATING", "SYNTHESIZING", "DONE">>

IsPrefix(s, t) == Len(s) <= Len(t) /\ \A i \in 1..Len(s) : s[i] = t[i]

CompleteResult ==
    /\ result.returned
    /\ Len(result.rankings) = Len(responses)
    /\ Cardinality(DOMAIN result.labelToModel) = Len(responses)
    /\ result.aggregateRankings = aggregateRankings
    /\ result.disagreementAnalysis = disagreementAnalysis
    /\ result.synthesis.modelId = chairman(chairmanModelId, responses)
    /\ result.rankingValidation.totalRankings = Len(responses)

\* C2: a runCouncil run with at least 2 responses passes COLLECTING_RANKINGS,
\* AGGREGATING, SYNTHESIZING in that order and, every completion request
\* settling, reaches DONE with a complete Council Result, whatever ranking
\* and synthesis requests fail; it never raises nor aborts.
C2_ReachesDone ==
    /\ [](HasEnoughResponses(responses) =>
            /\ IsPrefix(stages, StageOrder)
            /\ raised = ""
            /\ pc # "ABORTED")
    /\ [](pc = "DONE" => stages = StageOrder /\ CompleteResult)
    /\ ((pc = "INIT" /\ HasEnoughResponses(responses)) ~> (pc = "DONE"))

C2_Witness ==
    /\ pc = "DONE"
    /\ stages = StageOrder
    /\ \A i \in DOMAIN outcome : outcome[i].state = "failed"
    /\ synthOutcome.state = "failed"
    /\ result.returned

\* C3: a failed ranking request gives that model an invalid ranking with an
\* empty parsedOrder and the failure message as error; every other model's
\* ranking is what its own reply alone determines; collectRankings does not
\* fail, whatever subset of the requests fails.
C3_FailureIsolated ==
    /\ \A i \in DOMAIN outcome :
          /\ outcome[i].state = "failed" =>
                /\ rankingPromises[i].status = "fulfilled"
                /\ rankingPromises[i].value.isValid = FALSE
                /\ rankingPromises[i].value.parsedRanking = <<>>
                /\ rankingPromises[i].value.error = SomeError(outcome[i].message)
                /\ rankingPromises[i].value.modelId = responses[i].modelId
          /\ outcome[i].state = "ok" =>
                rankingPromises[i] = Fulfilled(RankingOnSuccess(responses[i],
                    extractMessageContent(outcome[i].data), Len(responses)))
    /\ HasEnoughResponses(responses) =>
          /\ pc # "ABORTED"
          /\ raised = ""
          /\ pc \in {"SYNTHESIZING", "DONE"} =>
                /\ DOMAIN rankings = DOMAIN outcome
                /\ \A i \in DOMAIN outcome : rankings[i] = rankingPromises[i].value

C3_Witness ==
    /\ pc = "SYNTHESIZING"
    /\ outcome[1].state = "failed"
    /\ rankings[1].error = SomeError("Failed to fetch")
    /\ outcome[2].state = "ok"
    /\ rankings[2].isValid

\* C4: collectRankings issues exactly one evaluation request per candidate
\* response, all before any of them settles and all with the same prompt,
\* returns only after every one has settled, and returns one ranking per
\* response, entry i belonging to the model of response i.
C4_OneRequestPerResponse ==
    (pc \notin {"INIT", "ABORTED"}) =>
        /\ Len(RankingRequests) = Len(responses)
        /\ \A i \in 1..Len(responses) :
              /\ issued[i].modelId = responses[i].modelId
              /\ issued[i].messages = rankingMessages(responses, labels)
              /\ outcome[i].state # "none"
        /\ pc \in {"SYNTHESIZING", "DONE"} =>
              /\ \A i \in 1..Len(responses) : Settled(outcome[i])
              /\ Len(rankings) = Len(responses)
              /\ \A i \in 1..Len(responses) :
                    /\ rankings[i].modelId = responses[i].modelId
                    /\ rankings[i].modelName = responses[i].modelName

C4_Witness ==
    /\ pc = "DONE"
    /\ Len(rankings) = MaxResponses
    /\ outcome[1].state = "ok"
    /\ outcome[2].state = "failed"
    /\ responses[1].modelId # responses[2].modelId

\* C5: the single synthesis request is issued only after all ranking requests
\* have settled; it is never in flight together with a ranking request.
C5_SynthesisAfterJoin ==
    /\ Len(ChairmanRequests) <= 1
    /\ (Len(ChairmanRequests) = 1 \/ synthOutcome.state # "none") =>
          /\ \A i \in DOMAIN outcome : Settled(outcome[i])
          /\ DOMAIN outcome = 1..Len(responses)
          /\ issued[Len(issued)].messages.kind = "chairmanPrompt"
    /\ synthOutcome.state = "pending" =>
          \A i \in DOMAIN outcome : outcome[i].state # "pending"

C5_Witness ==
    /\ synthOutcome.state = "pending"
    /\ Len(ChairmanRequests) = 1
    /\ outcome[1].state = "failed"
    /\ outcome[2].state = "ok"

\* C6: when the chairman's request fails, synthesizeFinal raises nothing and
\* returns the chairman's modelId with a content describing the error.
C6_SynthesisFailureRecovered ==
    synthOutcome.state = "failed" =>
        /\ pc = "DONE"
        /\ raised = ""
        /\ result.returned
        /\ result.synthesis.modelId = chairman(chairmanModelId, responses)
        /\ result.synthesis.content =
               <<ErrorLine("Error synthesizing response: ", synthOutcome.message)>>

C6_Witness ==
    /\ pc = "DONE"
    /\ synthOutcome = Failed("API request failed: 500")
    /\ result.synthesis.modelId = "model-x"

\* C7: for every response sequence of size N >= 2, labelToModel has exactly N
\* entries, its labels are pairwise distinct single uppercase letters, and
\* the i-th letter of the alphabet maps to the i-th response.
C7_LabelsInInputOrder ==
    (lpc = "done" /\ Len(responses) >= 2) =>
        /\ Cardinality(DOMAIN labelToModel) = Len(responses)
        /\ \A l \in DOMAIN labelToModel : l.pre = "Response" /\ l.ch \in UpperLetters
        /\ \A i, j \in 1..Len(labels) : i # j => labels[i] # labels[j]
        /\ \A i \in 1..Len(responses) :
              /\ Label("Response", CharCodeA + (i - 1)) \in DOMAIN labelToModel
              /\ labelToModel[Label("Response", CharCodeA + (i - 1))] =
                     [modelId |-> responses[i].modelId,
                      modelName |-> responses[i].modelName]

\* C8: collectRankings called with more than 26 responses fails with a
\* label-overflow error and produces no labelToModel; no label outside A..Z
\* is ever assigned.
C8_LabelOverflowFails ==
    /\ \A i \in 1..Len(labels) : labels[i] \in UpperLetters
    /\ (lpc = "done" /\ Len(responses) > Cardinality(UpperLetters)) =>
          /\ raised # ""
          /\ labelToModel = <<>>

\* C9: validateRanking(order, expectedCount) is false exactly when order is
\* empty, shorter than expectedCount, or holds a duplicate label; the isValid
\* flag of a ranking built from a successful request is
\* validateRanking(parsedOrder, number of responses).
C9_ValidateRanking ==
    rpc = "done" =>
        /\ ranked.isValid =
               ~(\/ ranked.parsedRanking = <<>>
                 \/ Len(ranked.parsedRanking) < expectedCount
                 \/ HasDuplicate(ranked.parsedRanking))
        /\ \A n \in 0..MaxExpected :
               validateRanking(ranked.parsedRanking, n) =
                   ~(\/ ranked.parsedRanking = <<>>
                     \/ Len(ranked.parsedRanking) < n
                     \/ HasDuplicate(ranked.parsedRanking))

C9_Witness ==
    /\ rpc = "done"
    /\ Len(ranked.parsedRanking) > expectedCount
    /\ expectedCount = 2
    /\ HasDuplicate(ranked.parsedRanking)
    /\ ~ranked.isValid

\* the text after the first 'FINAL RANKING:' marker
AfterMarker(t) == SubSeq(t, FirstMarker(t) + 1, Len(t))

\* a line '<number>. Response <Letter> (<CONFIDENCE>)'
IsConfidenceLine(tok) ==
    /\ tok.k = "num"
    /\ IsCanonical(tok)
    /\ tok.p
    /\ tok.c \in ConfidenceWords

ConfidenceLines(t) == SelectSeq(AfterMarker(t), IsConfidenceLine)

\* the numbered lines of the section that carry a confidence are all of the
\* form '<number>. Response <Letter> (<CONFIDENCE>)', and there is one
WellFormedSection(t) ==
    /\ includes(t)
    /\ ConfidenceLines(t) # <<>>
    /\ \A i \in 1..Len(AfterMarker(t)) :
          MatchesNumberedConfidence(AfterMarker(t)[i]) =>
              IsConfidenceLine(AfterMarker(t)[i])

ParsedAsWritten(t, r) ==
    /\ r.parsedRanking = LabelsOf(ConfidenceLines(t))
    /\ DOMAIN r.confidenceScores =
           {r.parsedRanking[i] : i \in 1..Len(r.parsedRanking)}
    /\ \A l \in DOMAIN r.confidenceScores :
           r.confidenceScores[l] =
               ConfidenceLines(t)[LastIndexOf(ConfidenceLines(t), l)].c

\* C10: for a text whose section after the 'FINAL RANKING:' marker contains
\* lines '<number>. Response <Letter> (<CONFIDENCE>)', the parse returns the
\* labels of those lines in textual order and maps each label to the
\* confidence written on its line.
C10_ConfidenceLinesInTextOrder ==
    (rpc = "done" /\ WellFormedSection(text)) => ParsedAsWritten(text, ranked)

\* the same, for texts in which the marker occurs once
C10_WithOneMarker ==
    (/\ rpc = "done"
     /\ WellFormedSection(text)
     /\ Len(split(text)) = 2) => ParsedAsWritten(text, ranked)

\* the 'Response <Letter>' occurrences of a text, in order of appearance
RECURSIVE Occurrences(_)
Occurrences(t) ==
    IF t = <<>> THEN <<>>
    ELSE (IF t[1].k \in {"num", "mention"} /\ t[1].pre = "Response"
             /\ t[1].ch \in UpperLetters
          THEN <<Label("Response", t[1].ch)>> ELSE <<>>)
             \o Occurrences(Tail(t))

ResponseA == Label("Response", CharCodeA)
ResponseC == Label("Response", CharCodeA + 2)

\* C11: for a text without the 'FINAL RANKING:' marker the parsed order is the
\* sequence of all 'Response <Letter>' occurrences of the whole text in order
\* of appearance, duplicates kept, and every label has confidence MEDIUM; the
\* order [A, C, A] is rejected by validateRanking(order, 3).
C11_FallbackKeepsDuplicates ==
    (rpc = "done" /\ ~includes(text)) =>
        /\ ranked.parsedRanking = Occurrences(text)
        /\ DOMAIN ranked.confidenceScores =
               {Occurrences(text)[i] : i \in 1..Len(Occurrences(text))}
        /\ \A l \in DOMAIN ranked.confidenceScores :
               ranked.confidenceScores[l] = "MEDIUM"
        /\ (ranked.parsedRanking = <<ResponseA, ResponseC, ResponseA>> =>
               /\ ~validateRanking(ranked.parsedRanking, 3)
               /\ (expectedCount = 3 => ~ranked.isValid))

C11_Witness ==
    /\ rpc = "done"
    /\ ~includes(text)
    /\ expectedCount = 3
    /\ ranked.parsedRanking = <<ResponseA, ResponseC, ResponseA>>
    /\ ranked.confidenceScores[ResponseA] = "MEDIUM"
    /\ ~ranked.isValid

\* C12: calculateAggregateRankings is a pure function for a fixed content of
\* the Performance Store: a call modifies neither the rankings, nor
\* labelToModel, nor the Performance Store, and a second call on the same
\* inputs returns an output equal to the first.
C12_AggregatorIsPure ==
    [][apc' # apc =>
          /\ rankings' = rankings
          /\ labelToModel' = labelToModel
          /\ analytics' = analytics
          /\ (apc = "called" => aggregateRankings' = aggregateRankings)]_vars

\* the same without the Performance Store: the arguments are left alone and
\* the second output equals the first
C12_ArgumentsUntouched ==
    [][apc' # apc =>
          /\ rankings' = rankings
          /\ labelToModel' = labelToModel
          /\ (apc = "called" => aggregateRankings' = aggregateRankings)]_vars

Unweighted == ~options.useWeightedAggregation /\ ~options.useConfidenceWeighting

\* the arithmetic mean of the 1-based positions the rankings give a label
MeanPosition(label) == Mean(PositionsInMatrix(rankings, label))

\* C13: with useWeightedAggregation = false and useConfidenceWeighting = false
\* the weighted rank reported for each label equals the unweighted arithmetic
\* mean of the 1-based positions the contributing rankings give that label.
C13_UnweightedMean ==
    (apc # "input" /\ Unweighted) =>
        \A i \in 1..Len(aggregateRankings) :
            aggregateRankings[i].avgRank = MeanPosition(aggregateRankings[i].label)

\* what the code reports is that mean rounded to two decimals
C13_RoundedMean ==
    (apc # "input" /\ Unweighted) =>
        \A i \in 1..Len(aggregateRankings) :
            aggregateRankings[i].avgRank =
                Round2(MeanPosition(aggregateRankings[i].label))

ResponseB == Label("Response", CharCodeA + 1)

\* the rankings the aggregation loop does not pass over
Contributing == SelectSeq(rankings, LAMBDA r : r.parsedRanking # <<>>)

\* label l is at position 1 in every contributing ranking
FirstEverywhere(l) ==
    /\ Contributing # <<>>
    /\ \A i \in 1..Len(Contributing) : Contributing[i].parsedRanking[1] = l

\* label l is named once in every contributing ranking, at position 1
FirstAndOnlyFirst(l) ==
    /\ FirstEverywhere(l)
    /\ \A i \in 1..Len(Contributing) :
           \A k \in 2..Len(Contributing[i].parsedRanking) :
               Contributing[i].parsedRanking[k] # l

\* the entry of l is the first of the output and its rank is the smallest
RankedFirst(l) ==
    /\ aggregateRankings # <<>>
    /\ aggregateRankings[1].label = l
    /\ \A i \in 2..Len(aggregateRankings) :
           Less(aggregateRankings[1].avgRank, aggregateRankings[i].avgRank)

ValidNonEmpty == {i \in 1..Len(rankings) :
    rankings[i].isValid /\ rankings[i].parsedRanking # <<>>}

\* C15: analyzeDisagreements given fewer than 2 valid non-empty rankings
\* returns consensus 1.0, no disagreements and no mostContested, whatever the
\* invalid rankings hold.
C15_TooFewValidRankings ==
    (apc # "input" /\ Cardinality(ValidNonEmpty) < 2) =>
        /\ disagreementAnalysis.consensus = Whole(1)
        /\ disagreementAnalysis.disagreements = <<>>
        /\ disagreementAnalysis.mostContested.isNull

C15_Witness ==
    /\ apc = "called"
    /\ Cardinality(ValidNonEmpty) = 1
    /\ \E i \in 1..Len(rankings) :
           ~rankings[i].isValid /\ Len(rankings[i].parsedRanking) > 3
    /\ disagreementAnalysis.consensus = Whole(1)
    /\ disagreementAnalysis.mostContested.isNull

\* all valid non-empty rankings give the same order
ValidAgree ==
    \A i, j \in ValidNonEmpty : rankings[i].parsedRanking = rankings[j].parsedRanking

\* C16: when analyzeDisagreements is given at least 2 valid rankings that all
\* have the identical order, every label's variance is 0 (each label has one
\* position throughout and the largest variance is 0), the disagreements list
\* is empty and consensus is 1.0.
C16_IdenticalOrdersFullConsensus ==
    (apc # "input" /\ Cardinality(ValidNonEmpty) >= 2 /\ ValidAgree) =>
        /\ \A l \in DOMAIN disagreementAnalysis.positionMatrix :
               \A a, b \in 1..Len(disagreementAnalysis.positionMatrix[l]) :
                   disagreementAnalysis.positionMatrix[l][a] =
                       disagreementAnalysis.positionMatrix[l][b]
        /\ disagreementAnalysis.mostContested.variance = Whole(0)
        /\ disagreementAnalysis.disagreements = <<>>
        /\ disagreementAnalysis.consensus = Whole(1)

C16_Witness ==
    /\ apc = "called"
    /\ ValidNonEmpty = {1, 2, 3}
    /\ ValidAgree
    /\ rankings[1].parsedRanking = <<ResponseC, ResponseB, ResponseA>>
    /\ ~disagreementAnalysis.mostContested.isNull
    /\ Len(disagreementAnalysis.positionMatrix[ResponseA]) = 3
    /\ disagreementAnalysis.consensus = Whole(1)

\* every label the rankings name, in the order the aggregation loop meets them
RECURSIVE NamedInOrder(_)
NamedInOrder(rks) ==
    IF rks = <<>> THEN <<>> ELSE rks[1].parsedRanking \o NamedInOrder(Tail(rks))

FirstSeen(l) ==
    LET named == NamedInOrder(rankings)
    IN  CHOOSE i \in 1..Len(named) :
            /\ named[i] = l
            /\ \A j \in 1..(i - 1) : named[j] # l

\* C17: the sequence calculateAggregateRankings returns is sorted by weighted
\* rank in ascending order, and entries of equal weighted rank keep the order
\* in which their labels were first met while iterating the rankings.
C17_SortedStable ==
    apc # "input" =>
        \A i, j \in 1..Len(aggregateRankings) :
            i < j =>
                /\ ~Less(aggregateRankings[j].avgRank, aggregateRankings[i].avgRank)
                /\ (aggregateRankings[i].avgRank = aggregateRankings[j].avgRank =>
                       FirstSeen(aggregateRankings[i].label)
                           < FirstSeen(aggregateRankings[j].label))

C17_Witness ==
    /\ apc = "called"
    /\ Len(aggregateRankings) = 3
    /\ aggregateRankings[1].avgRank = aggregateRankings[2].avgRank
    /\ Less(aggregateRankings[2].avgRank, aggregateRankings[3].avgRank)
    /\ aggregateRankings[1].label = ResponseB
    /\ aggregateRankings[2].label = ResponseA

\* the valid rankings if there is one, else all rankings
ValidIfAny ==
    IF \E i \in 1..Len(rankings) : rankings[i].isValid
    THEN SelectSeq(rankings, LAMBDA r : r.isValid)
    ELSE rankings

\* C18: in runCouncil the aggregator and the disagreement analyzer both
\* receive exactly the valid rankings when at least one ranking is valid and
\* all rankings when none is, whereas the synthesizer receives the full
\* unfiltered ranking set, failed rankings included, and is addressed to the
\* designated arbitrating model or, when none is designated, to the model of
\* the first response.
C18_StageInputs ==
    pc \in {"SYNTHESIZING", "DONE"} =>
        /\ aggregateRankings =
               calculateAggregateRankings(ValidIfAny, labelToModel, options, analytics)
        /\ disagreementAnalysis = analyzeDisagreements(ValidIfAny, labelToModel)
        /\ Len(ChairmanRequests) = 1
        /\ ChairmanRequests[1].modelId =
               (IF chairmanModelId # "" THEN chairmanModelId ELSE responses[1].modelId)
        /\ DOMAIN ChairmanRequests[1].messages.stage2 = 1..Len(responses)
        /\ \A i \in 1..Len(responses) :
               /\ rankings[i].modelId = responses[i].modelId
               /\ ChairmanRequests[1].messages.stage2[i].fullRanking =
                      rankings[i].fullRanking
               /\ (outcome[i].state = "failed" =>
                      ChairmanRequests[1].messages.stage2[i].fullRanking =
                          <<ErrorLine("Error: ", outcome[i].message)>>)

C18_Witness ==
    /\ pc = "DONE"
    /\ chairmanModelId = ""
    /\ ChairmanRequests[1].modelId = ModelIdOf(1)
    /\ Len(rankings) = 3
    /\ rankings[1].isValid
    /\ ~rankings[2].isValid /\ rankings[2].parsedRanking # <<>>
    /\ outcome[3].state = "failed"
    /\ Len(ValidIfAny) = 1
    /\ aggregateRankings[1].rankingsCount = 1

\* how many times the rankings name label l
TimesNamed(l) ==
    LET named == NamedInOrder(rankings)
    IN  Cardinality({i \in 1..Len(named) : named[i] = l})

EntriesOf(l) == {i \in 1..Len(aggregateRankings) : aggregateRankings[i].label = l}

WeightByFormula(stats) ==
    Plus(Frac(1, 2),
         Times(Frac(stats.totalQualityScore, 100 * stats.qualityScoreCount),
               Minus(Whole(1), Frac(stats.errorCount, stats.totalInteractions))))

\* the weight of the i-th weighed ranking is as the formula says; a model
\* with history but no quality score yet has no avgQualityScore to put in it
WeightAsSpecified(i) ==
    LET m == modelWeights[i].modelId
        stats == analytics.modelStats
    IN  IF ~options.useWeightedAggregation \/ m \notin DOMAIN stats
        THEN modelWeights[i].weight = Whole(1)
        ELSE /\ ~Less(modelWeights[i].weight, Frac(1, 2))
             /\ ~Less(Frac(3, 2), modelWeights[i].weight)
             /\ (stats[m].qualityScoreCount > 0 =>
                    modelWeights[i].weight = WeightByFormula(stats[m]))

\* C20: with useWeightedAggregation on, a ranking whose model has history in
\* the Performance Store weighs 0.5 + (avgQualityScore/100) * (1 - errorRate)
\* for every avgQualityScore in 0..100, 0 included, which lies in [0.5, 1.5];
\* a ranking whose model has no history weighs 1.0; with
\* useWeightedAggregation off every ranking weighs 1.0.
C20_ModelWeight ==
    apc # "input" => \A i \in 1..Len(modelWeights) : WeightAsSpecified(i)

\* the same for the models whose average quality score is not 0
C20_ModelWeightAboveZero ==
    apc # "input" =>
        \A i \in 1..Len(modelWeights) :
            (modelWeights[i].modelId \in DOMAIN analytics.modelStats =>
                analytics.modelStats[modelWeights[i].modelId].totalQualityScore # 0)
                    => WeightAsSpecified(i)

\* HIGH = 1.0, MEDIUM = 0.7, LOW = 0.4
TagWeight(tag) ==
    IF tag = "HIGH" THEN Whole(1) ELSE IF tag = "LOW" THEN Frac(2, 5) ELSE Frac(7, 10)

\* the weight of label l in ranking r: the ranking's model weight, times the
\* weight of the tag r gives l when useConfidenceWeighting is on
OccurrenceWeight(r, l) ==
    LET mw == modelWeight(r, options.useWeightedAggregation,
                  IF options.useWeightedAggregation
                  THEN getAllModelStats(analytics) ELSE <<>>)
    IN  IF options.useConfidenceWeighting
        THEN Times(mw, TagWeight(r.confidenceScores[l])) ELSE mw

\* [position, weight] of every occurrence of l in rks, ranking by ranking
RECURSIVE OccurrencesOf(_, _)
OccurrencesOf(rks, l) ==
    IF rks = <<>> THEN <<>>
    ELSE [i \in 1..Len(IndicesOf(rks[1].parsedRanking, l, 1)) |->
             [position |-> IndicesOf(rks[1].parsedRanking, l, 1)[i],
              weight |-> OccurrenceWeight(rks[1], l)]]
         \o OccurrencesOf(Tail(rks), l)

\* sum(position_i * weight_i) / sum(weight_i)
WeightedMean(occ) ==
    Over(SumOf([i \in 1..Len(occ) |-> Times(Whole(occ[i].position), occ[i].weight)]),
         SumOf([i \in 1..Len(occ) |-> occ[i].weight]))

\* C21: for each label the weighted rank calculateAggregateRankings reports is
\* sum(position_i * weight_i) / sum(weight_i) over all occurrences of the
\* label in contributing rankings, weight_i being the ranking's model weight
\* times the confidence weight of the label in that ranking (HIGH 1.0,
\* MEDIUM 0.7, LOW 0.4) when useConfidenceWeighting is on and the model
\* weight alone when it is off.
C21_WeightedRank ==
    apc # "input" =>
        \A i \in 1..Len(aggregateRankings) :
            aggregateRankings[i].avgRank =
                WeightedMean(OccurrencesOf(rankings, aggregateRankings[i].label))

\* what is reported is that quotient rounded to two decimals
C21_RoundedWeightedRank ==
    apc # "input" =>
        \A i \in 1..Len(aggregateRankings) :
            aggregateRankings[i].avgRank =
                Round2(WeightedMean(OccurrencesOf(rankings, aggregateRankings[i].label)))

\* the labels some ranking names
Named ==
    LET named == NamedInOrder(rankings)
    IN  {named[i] : i \in 1..Len(named)}

\* C22: every entry of the aggregate output has a label that is a key of
\* labelToModel, counts at least one vote, has a total weight above 0 and a
\* weighted rank of at least 1; a label of labelToModel that no contributing
\* ranking names has no entry, nor has a label that a ranking names but
\* labelToModel lacks.
C22_EntriesWellFormed ==
    apc # "input" =>
        /\ \A i \in 1..Len(aggregateRankings) :
               /\ aggregateRankings[i].label \in DOMAIN labelToModel
               /\ aggregateRankings[i].label \in Named
               /\ aggregateRankings[i].rankingsCount >= 1
               /\ Less(Whole(0), aggregateRankings[i].totalWeight)
               /\ ~Less(aggregateRankings[i].avgRank, Whole(1))
        /\ \A l \in (DOMAIN labelToModel \ Named) \cup (Named \ DOMAIN labelToModel) :
               EntriesOf(l) = {}

C22_Witness ==
    /\ apc = "called"
    /\ Len(rankings) = 3
    /\ Label("Response", CharCodeA + 3) \in Named
    /\ DOMAIN labelToModel = {ResponseA, ResponseB, ResponseC}
    /\ rankings[2].parsedRanking = <<>>
    /\ rankings[3].parsedRanking = <<>>
    /\ Len(aggregateRankings) = 3

RECURSIVE SumInt(_)
SumInt(xs) == IF xs = <<>> THEN 0 ELSE xs[1] + SumInt(Tail(xs))

\* population variance of a non-empty sequence of integers:
\* (n * sum of squares - square of the sum) / n^2
PopulationVariance(xs) ==
    Frac(Len(xs) * SumInt([i \in 1..Len(xs) |-> xs[i] * xs[i]])
             - SumInt(xs) * SumInt(xs),
         Len(xs) * Len(xs))

\* the positions the valid non-empty rankings give label l, ranking by ranking
ValidPositions(l) ==
    PositionsInMatrix(SelectSeq(rankings,
        LAMBDA r : r.isValid /\ r.parsedRanking # <<>>), l)

\* the labels of labelToModel in increasing letter order
RECURSIVE LettersInOrder(_)
LettersInOrder(ls) ==
    IF ls = {} THEN <<>>
    ELSE LET first == CHOOSE l \in ls : \A k \in ls : l.ch <= k.ch
         IN  <<first>> \o LettersInOrder(ls \ {first})

\* the per-label variances, for the labels that have a position
VarianceOf(l) == PopulationVariance(ValidPositions(l))
Positioned == SelectSeq(LettersInOrder(DOMAIN labelToModel),
                        LAMBDA l : ValidPositions(l) # <<>>)

\* max(0, 1 - totalVariance / (maxPossibleVariance * labelCount))
ConsensusFormula ==
    LET labelCount == Cardinality(DOMAIN labelToModel)
        totalVariance == SumOf([i \in 1..Len(Positioned) |-> VarianceOf(Positioned[i])])
        x == Minus(Whole(1), Over(totalVariance,
                 Times(Frac(labelCount * labelCount, 12), Whole(labelCount))))
    IN  IF Less(x, Whole(0)) THEN Whole(0) ELSE x

InUnitInterval(x) == ~Less(x, Whole(0)) /\ ~Less(Whole(1), x)

\* C23: with at least 2 valid rankings the consensus analyzeDisagreements
\* returns equals max(0, 1 - totalVariance / (maxPossibleVariance *
\* labelCount)), totalVariance being the sum of the per-label population
\* variances, labelCount the number of labels of labelToModel and
\* maxPossibleVariance = labelCount^2 / 12, and it lies in [0, 1].
C23_ConsensusFormula ==
    (apc # "input" /\ Cardinality(ValidNonEmpty) >= 2) =>
        /\ disagreementAnalysis.consensus = ConsensusFormula
        /\ InUnitInterval(disagreementAnalysis.consensus)

\* what is returned is that value rounded to two decimals, within [0, 1]
C23_RoundedConsensus ==
    (apc # "input" /\ Cardinality(ValidNonEmpty) >= 2) =>
        /\ disagreementAnalysis.consensus = Round2(ConsensusFormula)
        /\ InUnitInterval(disagreementAnalysis.consensus)

\* C24: with at least 2 valid rankings, mostContested is a label whose
\* variance is at least that of every other label, and among the labels of
\* maximal variance it is the first in the iteration order of the labels of
\* labelToModel (A, B, C, ...).
C24_MostContested ==
    (apc # "input" /\ Cardinality(ValidNonEmpty) >= 2) =>
        /\ ~disagreementAnalysis.mostContested.isNull
        /\ disagreementAnalysis.mostContested.label \in DOMAIN labelToModel
        /\ disagreementAnalysis.mostContested.variance =
               VarianceOf(disagreementAnalysis.mostContested.label)
        /\ LET positioned == Positioned
           IN  \A i \in 1..Len(positioned) :
                   LET variance == VarianceOf(positioned[i])
                   IN  /\ ~Less(disagreementAnalysis.mostContested.variance, variance)
                       /\ (variance = disagreementAnalysis.mostContested.variance
                              => disagreementAnalysis.mostContested.label.ch
                                     <= positioned[i].ch)

C24_Witness ==
    /\ apc = "called"
    /\ Cardinality(ValidNonEmpty) >= 2
    /\ Cardinality(DOMAIN labelToModel) = 3
    /\ disagreementAnalysis.mostContested.label = ResponseA
    /\ VarianceOf(ResponseA) = VarianceOf(ResponseB)
    /\ Less(VarianceOf(ResponseC), VarianceOf(ResponseA))

\* the section after the marker has no numbered line at all
NoNumberedLine(t) ==
    /\ includes(t)
    /\ \A i \in 1..Len(AfterMarker(t)) : AfterMarker(t)[i].k # "num"

AllMedium(r) ==
    /\ DOMAIN r.confidenceScores =
           {r.parsedRanking[i] : i \in 1..Len(r.parsedRanking)}
    /\ \A l \in DOMAIN r.confidenceScores : r.confidenceScores[l] = "MEDIUM"

\* C25: when the 'FINAL RANKING:' marker is present and the section after it
\* has no numbered 'N. Response <Letter>' line, the parse returns every
\* 'Response <Letter>' occurrence of the full text, those before the marker
\* included, in order of appearance and with confidence MEDIUM.
C25_FullTextFallback ==
    (rpc = "done" /\ NoNumberedLine(text)) =>
        /\ ranked.parsedRanking = Occurrences(text)
        /\ AllMedium(ranked)

\* what the parse returns in that case: the occurrences of the section
\* between the first marker and the next when there is one, those of the
\* full text otherwise
C25_SectionBeforeFullText ==
    (rpc = "done" /\ NoNumberedLine(text)) =>
        /\ ranked.parsedRanking =
               IF Occurrences(split(text)[2]) # <<>>
               THEN Occurrences(split(text)[2]) ELSE Occurrences(text)
        /\ AllMedium(ranked)

\* at least half of the collected rankings are invalid
HalfInvalid ==
    /\ Len(rankings) > 0
    /\ 2 * Cardinality({i \in 1..Len(rankings) : ~rankings[i].isValid})
           >= Len(rankings)

\* the result has a field that holds a warning
CarriesWarning(r) == \E f \in DOMAIN r : f \in {"warning", "warnings"}

\* C26: when at least half of the rankings collected by runCouncil are
\* invalid, the returned Council Result carries a non-fatal warning, and the
\* run has gone through aggregation, disagreement analysis and synthesis to
\* DONE.
C26_WarningInResult ==
    (pc = "DONE" /\ HalfInvalid) =>
        /\ CarriesWarning(result)
        /\ stages = StageOrder
        /\ result.returned

\* what runCouncil does in that case: the warning goes to the console, the
\* result has its six fields, and the run goes on to DONE
C26_WarningOnConsole ==
    (pc = "DONE" /\ HalfInvalid) =>
        /\ warned
        /\ DOMAIN result = DOMAIN NoResult
        /\ stages = StageOrder
        /\ result.returned
        /\ result.aggregateRankings = aggregateRankings
        /\ result.disagreementAnalysis = disagreementAnalysis

\* the positions of the invalid rankings
InvalidPositions == {i \in 1..Len(rankings) : ~rankings[i].isValid}

\* the position of the k-th invalid ranking
InvalidAt(k) == CHOOSE i \in InvalidPositions :
    Cardinality({j \in InvalidPositions : j < i}) = k - 1

\* C27: in every Council Result returned by runCouncil, totalRankings =
\* validRankings + invalidRankings = number of responses, validRankings counts
\* the rankings with isValid = true, and invalidDetails has one entry per
\* invalid ranking, in ranking order, with that ranking's error message, or
\* 'Incomplete ranking' when it has none.
C27_ValidationSummary ==
    pc = "DONE" =>
        /\ result.rankingValidation.totalRankings = Len(responses)
        /\ result.rankingValidation.totalRankings =
               result.rankingValidation.validRankings
                   + result.rankingValidation.invalidRankings
        /\ result.rankingValidation.validRankings =
               Cardinality({i \in 1..Len(rankings) : rankings[i].isValid})
        /\ DOMAIN result.rankingValidation.invalidDetails =
               1..Cardinality(InvalidPositions)
        /\ \A k \in 1..Cardinality(InvalidPositions) :
               /\ result.rankingValidation.invalidDetails[k].modelName =
                      responses[InvalidAt(k)].modelName
               /\ result.rankingValidation.invalidDetails[k].error =
                      IF outcome[InvalidAt(k)].state = "failed"
                      THEN outcome[InvalidAt(k)].message
                      ELSE "Incomplete ranking"

C27_Witness ==
    /\ pc = "DONE"
    /\ Len(rankings) = 3
    /\ ~rankings[1].isValid /\ outcome[1].state = "ok"
    /\ rankings[2].isValid
    /\ outcome[3].state = "failed"
    /\ result.rankingValidation.validRankings = 1
    /\ result.rankingValidation.invalidDetails[1].error = "Incomplete ranking"
    /\ result.rankingValidation.invalidDetails[2].error = "Failed to fetch"

\* the labels collectRankings assigns to n responses
AssignedLabels(n) == {Label("Response", CharCodeA + (i - 1)) : i \in 1..n}

IsPermutationOf(order, ls) ==
    /\ Len(order) = Cardinality(ls)
    /\ \A l \in ls : \E i \in 1..Len(order) : order[i] = l
    /\ \A i \in 1..Len(order) : order[i] \in ls

\* C28: every ranking marked isValid = true has a parsed order that is a
\* permutation of the assigned labels: each assigned label occurs exactly
\* once, and no unassigned letter nor label in another letter case occurs.
C28_ValidIsPermutation ==
    (rpc = "done" /\ expectedCount >= 2 /\ ranked.isValid) =>
        IsPermutationOf(ranked.parsedRanking, AssignedLabels(expectedCount))

\* what isValid = true does guarantee: at least as many labels as responses,
\* no label twice
C28_ValidIsLongEnoughAndDistinct ==
    (rpc = "done" /\ expectedCount >= 2 /\ ranked.isValid) =>
        /\ Len(ranked.parsedRanking) >= expectedCount
        /\ ~HasDuplicate(ranked.parsedRanking)

\* C29: in every aggregate entry, the number of votes counted is at most the
\* number of rankings passed to calculateAggregateRankings, also when the
\* input contains invalid non-empty rankings.
C29_VotesAtMostRankings ==
    apc # "input" =>
        \A i \in 1..Len(aggregateRankings) :
            aggregateRankings[i].rankingsCount <= Len(rankings)

\* the bound holds when every ranking passed is valid
C29_VotesAtMostValidRankings ==
    (apc # "input" /\ \A k \in 1..Len(rankings) : rankings[k].isValid) =>
        \A i \in 1..Len(aggregateRankings) :
            aggregateRankings[i].rankingsCount <= Len(rankings)

\* a response with an OK status whose body ends with finish_reason 'length'
TruncatedByLength(o) ==
    /\ ~o.rejected
    /\ o.status = 200
    /\ o.body.valid
    /\ o.body.finish_reason = "length"

\* a network error or a non-OK HTTP status
FailedAttempt(o) == o.rejected \/ o.status \notin 200..299

BoundedRetries ==
    /\ Len(fetched) <= 3
    /\ Len(received) <= Len(fetched)
    /\ Len(fetched) <= Len(received) + 1
    /\ \A i \in 1..Len(received) :
           /\ i < Len(fetched) => TruncatedByLength(received[i])
           /\ (TruncatedByLength(received[i]) /\ i < 3) => Len(fetched) > i
           /\ FailedAttempt(received[i]) =>
                  /\ Len(fetched) = i
                  /\ Len(received) = i
                  /\ hpc = "raised"
                  /\ completion.raised
           /\ (i = 3 /\ ~FailedAttempt(received[i]) /\ received[i].body.valid) =>
                  /\ hpc = "returned"
                  /\ completion.returned
                  /\ completion.data = received[i].body
    /\ hpc = "returned" => completion.data = received[Len(received)].body

=============================================================================
